---- MODULE Spec2Model ----
(***************************************************************************)
(* A model of backend/scripts/fetch_aircraft_specs.py: the unit parsers,   *)
(* the keyword matchers, the table and list extractors, the record         *)
(* assembler with its derived fuel cost, and the batch loop of main.       *)
(*                                                                         *)
(* Text is a sequence of one-character strings ("NBSP" stands for the      *)
(* character U+00A0), so that substring tests and the regular expressions  *)
(* of the parsers are computed character by character.  A Python float is  *)
(* an exact decimal m * 10^(-e); the sample numerals are short enough for  *)
(* this to agree with the binary float at the precision the program emits. *)
(***************************************************************************)
EXTENDS Integers, Sequences, FiniteSets, TLC

VARIABLES PLANES, pos, entries, written, calls, pc, fn, args, ret

vars == <<PLANES, pos, entries, written, calls, pc, fn, args, ret>>

(***************************************************************************)
(* Characters and strings                                                  *)
(***************************************************************************)
Digits == <<"0","1","2","3","4","5","6","7","8","9">>

IsDigit(c) == \E i \in 1..10 : Digits[i] = c

DigitVal(c) == (CHOOSE i \in 1..10 : Digits[i] = c) - 1

\* what the regular expression \s and str.strip take for white space
IsSpace(c) == c \in {" ", "\n", "\t"}

UpperCase == <<"A","B","C","D","E","F","G","H","I","J","K","L","M","N","O","P","Q","R","S","T","U","V","W","X","Y","Z">>

LowerCase == <<"a","b","c","d","e","f","g","h","i","j","k","l","m","n","o","p","q","r","s","t","u","v","w","x","y","z">>

\* str.lower on one character
Lower(c) == IF \E i \in 1..26 : UpperCase[i] = c
            THEN LowerCase[CHOOSE i \in 1..26 : UpperCase[i] = c]
            ELSE c

\* str.lower
LowerText(s) == [i \in 1..Len(s) |-> Lower(s[i])]

\* Python's `sub in s`
Contains(sub, s) ==
    \E i \in 0..(Len(s) - Len(sub)) : \A j \in 1..Len(sub) : s[i + j] = sub[j]

\* str.replace(old, new) for a one-character old
Replace(s, old, new) == [i \in 1..Len(s) |-> IF s[i] = old THEN new ELSE s[i]]

RECURSIVE Remove(_, _)
\* str.replace(c, "")
Remove(s, c) ==
    IF s = <<>> THEN <<>>
    ELSE IF Head(s) = c THEN Remove(Tail(s), c)
    ELSE <<Head(s)>> \o Remove(Tail(s), c)

\* str.strip
Strip(s) ==
    LET keep == {i \in 1..Len(s) : ~IsSpace(s[i])}
    IN  IF keep = {} THEN <<>>
        ELSE LET lo == CHOOSE i \in keep : \A j \in keep : i <= j
                 hi == CHOOSE i \in keep : \A j \in keep : j <= i
             IN  SubSeq(s, lo, hi)

RECURSIVE SubRefs(_)
\* re.sub(r"\[[^\]]*\]", "", value): each "[" up to the next "]" goes
SubRefs(s) ==
    IF s = <<>> THEN <<>>
    ELSE IF Head(s) = "[" /\ \E j \in 2..Len(s) : s[j] = "]"
    THEN LET j == CHOOSE k \in 2..Len(s) :
                      s[k] = "]" /\ \A l \in 2..(k - 1) : s[l] # "]"
         IN  SubRefs(SubSeq(s, j + 1, Len(s)))
    ELSE <<Head(s)>> \o SubRefs(Tail(s))

clean_text(value) == Strip(Replace(SubRefs(value), "NBSP", " "))

(***************************************************************************)
(* Values: a number m * 10^(-e), a string, None, or a raised exception     *)
(***************************************************************************)
RECURSIVE Normal(_, _)
Normal(m, e) == IF e > 0 /\ m % 10 = 0 THEN Normal(m \div 10, e - 1)
                ELSE [k |-> "num", m |-> m, e |-> e, s |-> <<>>]

Num(m, e) == Normal(m, e)

Str(s) == [k |-> "str", m |-> 0, e |-> 0, s |-> s]

None == [k |-> "none", m |-> 0, e |-> 0, s |-> <<>>]

Raised(exc) == [k |-> "raise", m |-> 0, e |-> 0, s |-> exc]

IsNum(v) == v.k = "num"

IsRaised(v) == v.k = "raise"

\* Python truthiness of a value
Truthy(v) == \/ v.k = "num" /\ v.m # 0
             \/ v.k = "str" /\ v.s # <<>>

RECURSIVE Pow10(_)
Pow10(n) == IF n = 0 THEN 1 ELSE 10 * Pow10(n - 1)

\* v * (fm * 10^(-fe)), the product of two floats
Times(v, fm, fe) == Num(v.m * fm, v.e + fe)

\* int(v) of a non-negative float
IntOf(v) == Num(v.m \div Pow10(v.e), 0)

\* round(v, n), ties to even
Round(v, n) ==
    IF v.e <= n THEN v
    ELSE LET d == Pow10(v.e - n)
             q == v.m \div d
             r == v.m % d
             up == 2 * r > d \/ (2 * r = d /\ q % 2 = 1)
         IN  Num(IF up THEN q + 1 ELSE q, n)

RECURSIVE DigitsValue(_)
DigitsValue(s) == IF s = <<>> THEN 0
                  ELSE 10 * DigitsValue(SubSeq(s, 1, Len(s) - 1)) + DigitVal(s[Len(s)])

\* float(s) for s made of digits and dots: ValueError unless there is a
\* digit and at most one dot
ToFloat(s) ==
    LET dots == {i \in 1..Len(s) : s[i] = "."}
    IN  IF Cardinality(dots) > 1 \/ Cardinality(dots) = Len(s)
        THEN Raised("ValueError")
        ELSE IF dots = {} THEN Num(DigitsValue(s), 0)
        ELSE LET d == CHOOSE i \in dots : TRUE
             IN  Num(DigitsValue(Remove(s, ".")), Len(s) - d)

(***************************************************************************)
(* The regular expressions of the parsers.  Every pattern is an optional   *)
(* prefix, one capturing group (a first character from one class, then a   *)
(* greedy run from another), and a suffix of literals, \s*, optional       *)
(* parts, alternatives and the look-ahead (?![0-9]).                       *)
(***************************************************************************)
Lit(s, ic) == [t |-> "lit", s |-> s, ic |-> ic, r |-> <<>>]

Ws == [t |-> "ws", s |-> <<>>, ic |-> FALSE, r |-> <<>>]

Opt(atoms) == [t |-> "opt", s |-> <<>>, ic |-> FALSE, r |-> <<atoms>>]

Alt(a, b) == [t |-> "alt", s |-> <<>>, ic |-> FALSE, r |-> <<a, b>>]

NotDigit == [t |-> "notdigit", s |-> <<>>, ic |-> FALSE, r |-> <<>>]

LitAt(s, ic, text, p) ==
    /\ p + Len(s) - 1 <= Len(text)
    /\ \A j \in 1..Len(s) :
          IF ic THEN Lower(text[p + j - 1]) = Lower(s[j]) ELSE text[p + j - 1] = s[j]

RECURSIVE MatchSeq(_, _, _)
\* the positions at which a match of atoms that starts at a position of P can end
MatchSeq(atoms, text, P) ==
    IF atoms = <<>> \/ P = {} THEN P
    ELSE LET a == Head(atoms)
             step ==
                CASE a.t = "lit" ->
                       {p + Len(a.s) : p \in {q \in P : LitAt(a.s, a.ic, text, q)}}
                  [] a.t = "ws" ->
                       UNION {{q \in p..(Len(text) + 1) :
                                 \A l \in p..(q - 1) : IsSpace(text[l])} : p \in P}
                  [] a.t = "opt" -> P \cup MatchSeq(a.r[1], text, P)
                  [] a.t = "alt" ->
                       MatchSeq(a.r[1], text, P) \cup MatchSeq(a.r[2], text, P)
                  [] a.t = "notdigit" ->
                       {p \in P : p > Len(text) \/ ~IsDigit(text[p])}
         IN  MatchSeq(Tail(atoms), text, step)

DigitSet == {Digits[i] : i \in 1..10}

Pattern(pre, first, rest, post) ==
    [pre |-> pre, first |-> first, rest |-> rest, post |-> post]

\* ([0-9][0-9,]*) followed by post
NumComma(post) == Pattern(<<>>, DigitSet, DigitSet \cup {","}, post)

\* ([0-9][0-9,\.]*) followed by post
NumCommaDot(post) == Pattern(<<>>, DigitSet, DigitSet \cup {",", "."}, post)

\* where the group can end when it starts at k
GroupEnds(pat, text, k) ==
    {j \in (k + 1)..(Len(text) + 1) :
        /\ text[k] \in pat.first
        /\ \A l \in (k + 1)..(j - 1) : text[l] \in pat.rest
        /\ MatchSeq(pat.post, text, {j}) # {}}

GroupStarts(pat, text, i) ==
    {k \in MatchSeq(pat.pre, text, {i}) : k <= Len(text) /\ GroupEnds(pat, text, k) # {}}

Max(S) == CHOOSE x \in S : \A y \in S : y <= x

Min(S) == CHOOSE x \in S : \A y \in S : x <= y

NoMatch == [hit |-> FALSE, g |-> <<>>]

\* group(1) of the match that starts at i: the greedy \s* of the prefix takes the
\* latest start of the group, the greedy group its latest end
GroupFrom(pat, text, k) == [hit |-> TRUE, g |-> SubSeq(text, k, Max(GroupEnds(pat, text, k)) - 1)]

LeftmostMatch(pat, text, starts) ==
    IF starts = {} THEN NoMatch
    ELSE GroupFrom(pat, text, Max(GroupStarts(pat, text, Min(starts))))

\* re.search(pattern, text): group(1) of the leftmost match
re_search(pat, text) ==
    LeftmostMatch(pat, text, {i \in 1..Len(text) : GroupStarts(pat, text, i) # {}})

\* f * factor, or the ValueError of float()
Scaled(f, fm, fe) == IF IsRaised(f) THEN f ELSE Times(f, fm, fe)

\* float(group.replace(",", "")) * factor; float raises ValueError on a group such
\* as "1.2.3" or "."
Converted(g, fm, fe) == Scaled(ToFloat(Remove(g, ",")), fm, fe)

\* a pattern with the factor m * 10^(-e) of its unit
Unit(pat, m, e) == [pat |-> pat, m |-> m, e |-> e]

ConvertedBy(unit, match) == Converted(match.g, unit.m, unit.e)

FirstOf(text, units, hits) ==
    IF hits = {} THEN None
    ELSE ConvertedBy(units[Min(hits)], re_search(units[Min(hits)].pat, text))

\* the patterns are tried in order on the cleaned text; the first that matches
\* gives the value, none gives None
FirstMatch(text, units) ==
    FirstOf(text, units, {i \in DOMAIN units : re_search(units[i].pat, text).hit})

(***************************************************************************)
(* Unit parsers                                                            *)
(***************************************************************************)
parse_number(txt) == FirstMatch(clean_text(txt), <<Unit(NumComma(<<>>), 1, 0)>>)

IntOrNone(num) == IF num = None THEN None ELSE IntOf(num)

parse_int_value(txt) == IntOrNone(parse_number(txt))

parse_speed(txt) ==
    FirstMatch(clean_text(txt),
        <<Unit(NumComma(<<Ws, Lit(<<"k","m">>, TRUE), Opt(<<Lit(<<"/">>, TRUE)>>), Lit(<<"h">>, TRUE)>>),
               1, 0),
          Unit(NumComma(<<Ws, Lit(<<"m","p","h">>, TRUE)>>), 160934, 5),
          Unit(Pattern(<<Lit(<<"M","a","c","h">>, FALSE), Ws>>, DigitSet \cup {"."}, DigitSet \cup {"."},
                       <<>>), 1225, 0)>>)

parse_distance(txt) ==
    FirstMatch(clean_text(txt),
        <<Unit(NumComma(<<Ws, Lit(<<"k","m">>, FALSE)>>), 1, 0),
          Unit(NumComma(<<Ws, Lit(<<"n","m","i">>, TRUE)>>), 1852, 3),
          Unit(NumComma(<<Ws, Lit(<<"m","i">>, FALSE)>>), 160934, 5)>>)

parse_length(txt) ==
    FirstMatch(clean_text(txt),
        <<Unit(NumCommaDot(<<Ws, Lit(<<"m">>, FALSE), NotDigit>>), 1, 0),
          Unit(NumCommaDot(<<Ws, Lit(<<"f","t">>, FALSE)>>), 3048, 4)>>)

parse_area(txt) ==
    FirstMatch(clean_text(txt),
        <<Unit(NumCommaDot(<<Ws, Lit(<<"m">>, FALSE), Opt(<<Lit(<<"^">>, FALSE)>>),
                             Lit(<<"2">>, FALSE)>>), 1, 0),
          Unit(NumCommaDot(<<Ws, Lit(<<"s","q">>, TRUE), Ws, Lit(<<"f","t">>, TRUE)>>), 92903, 6)>>)

parse_mass(txt) ==
    FirstMatch(clean_text(txt),
        <<Unit(NumCommaDot(<<Ws, Lit(<<"k","g">>, FALSE)>>), 1, 0),
          Unit(NumCommaDot(<<Ws, Lit(<<"t">>, FALSE)>>), 1000, 0),
          Unit(NumCommaDot(<<Ws, Lit(<<"l","b">>, FALSE)>>), 453592, 6)>>)

parse_volume(txt) ==
    FirstMatch(clean_text(txt),
        <<Unit(NumCommaDot(<<Ws, Lit(<<"m">>, FALSE), Opt(<<Lit(<<"^">>, FALSE)>>),
                             Lit(<<"3">>, FALSE)>>), 1, 0),
          Unit(NumCommaDot(<<Ws, Alt(<<Lit(<<"c","u">>, TRUE)>>, <<Lit(<<"c","u","b","i","c">>, TRUE)>>), Ws,
                             Lit(<<"f","t">>, TRUE)>>), 283168, 7)>>)

parse_fuel_volume(txt) ==
    FirstMatch(clean_text(txt),
        <<Unit(NumCommaDot(<<Ws, Lit(<<"L">>, FALSE)>>), 1, 0),
          Unit(NumCommaDot(<<Ws, Opt(<<Lit(<<"U","S">>, FALSE), Ws>>), Lit(<<"g","a","l">>, FALSE)>>),
               378541, 5)>>)

parse_force(txt) ==
    FirstMatch(clean_text(txt),
        <<Unit(NumCommaDot(<<Ws, Lit(<<"k","N">>, FALSE)>>), 1, 0),
          Unit(NumCommaDot(<<Ws, Lit(<<"l","b","f">>, TRUE)>>), 444822, 8)>>)

ParserNames == {"parse_number", "parse_int_value", "parse_speed", "parse_distance",
                "parse_length", "parse_area", "parse_mass", "parse_volume",
                "parse_fuel_volume", "parse_force"}

\* field.parser(raw): the parser a name stands for
Parse(parser, raw) ==
    CASE parser = "parse_number" -> parse_number(raw)
      [] parser = "parse_int_value" -> parse_int_value(raw)
      [] parser = "parse_speed" -> parse_speed(raw)
      [] parser = "parse_distance" -> parse_distance(raw)
      [] parser = "parse_length" -> parse_length(raw)
      [] parser = "parse_area" -> parse_area(raw)
      [] parser = "parse_mass" -> parse_mass(raw)
      [] parser = "parse_volume" -> parse_volume(raw)
      [] parser = "parse_fuel_volume" -> parse_fuel_volume(raw)
      [] parser = "parse_force" -> parse_force(raw)
      [] parser = "clean_text" -> Str(clean_text(raw))

(***************************************************************************)
(* Configuration: fuel profiles, turnaround times, the field registry      *)
(***************************************************************************)
TURNAROUND_BY_CLASS ==
    [regional |-> 25, narrowbody |-> 45, widebody |-> 75, jumbo |-> 100]

\* (basis, factor): the factor is m * 10^(-e)
FUEL_PROFILES ==
    [regional_turboprop  |-> [basis |-> "seats", m |-> 18, e |-> 3],
     regional_jet        |-> [basis |-> "seats", m |-> 24, e |-> 3],
     regional_jet_modern |-> [basis |-> "seats", m |-> 22, e |-> 3],
     narrowbody_classic  |-> [basis |-> "seats", m |-> 22, e |-> 3],
     narrowbody_modern   |-> [basis |-> "seats", m |-> 19, e |-> 3],
     widebody_classic    |-> [basis |-> "seats", m |-> 19, e |-> 3],
     widebody_modern     |-> [basis |-> "seats", m |-> 17, e |-> 3],
     jumbo_legacy        |-> [basis |-> "seats", m |-> 24, e |-> 3],
     jumbo_modern        |-> [basis |-> "seats", m |-> 21, e |-> 3],
     cargo_widebody      |-> [basis |-> "payload", m |-> 55, e |-> 6],
     cargo_jumbo         |-> [basis |-> "payload", m |-> 5, e |-> 5]]

FieldDef(key, keywords, parser, skip) ==
    [key |-> key, keywords |-> keywords, parser |-> parser, skip |-> skip]

FIELD_DEFS == <<
    FieldDef("crew", <<<<"c","r","e","w">>>>, "parse_int_value", <<>>),
    FieldDef("three_class_seats", <<<<"3","-","c","l","a","s","s"," ","s","e","a","t","s">>, <<"t","h","r","e","e","-","c","l","a","s","s">>>>, "parse_int_value", <<>>),
    FieldDef("two_class_seats", <<<<"2","-","c","l","a","s","s"," ","s","e","a","t","s">>, <<"t","w","o","-","c","l","a","s","s">>>>, "parse_int_value", <<>>),
    FieldDef("one_class_max_seats",
             <<<<"1","-","c","l","a","s","s">>, <<"o","n","e","-","c","l","a","s","s">>, <<"m","a","x"," ","s","e","a","t","i","n","g">>, <<"m","a","x","i","m","u","m"," ","s","e","a","t","i","n","g">>>>,
             "parse_int_value", <<>>),
    FieldDef("cargo_volume_m3", <<<<"c","a","r","g","o"," ","v","o","l","u","m","e">>, <<"c","a","r","g","o"," ","c","a","p","a","c","i","t","y">>, <<"h","o","l","d">>>>,
             "parse_volume", <<>>),
    FieldDef("mtow_kg", <<<<"m","t","o","w">>, <<"m","a","x"," ","t","a","k","e","o","f","f"," ","w","e","i","g","h","t">>>>, "parse_mass", <<>>),
    FieldDef("max_payload_kg", <<<<"m","a","x"," ","p","a","y","l","o","a","d">>, <<"p","a","y","l","o","a","d">>>>, "parse_mass", <<>>),
    FieldDef("oew_kg", <<<<"o","e","w">>, <<"o","p","e","r","a","t","i","n","g"," ","e","m","p","t","y"," ","w","e","i","g","h","t">>>>, "parse_mass", <<>>),
    FieldDef("fuel_capacity_l", <<<<"f","u","e","l"," ","c","a","p","a","c","i","t","y">>, <<"m","a","x"," ","f","u","e","l">>>>, "parse_fuel_volume", <<>>),
    FieldDef("length_m", <<<<"l","e","n","g","t","h">>>>, "parse_length", <<>>),
    FieldDef("wingspan_m", <<<<"w","i","n","g","s","p","a","n">>, <<"s","p","a","n">>>>, "parse_length", <<>>),
    FieldDef("height_m", <<<<"h","e","i","g","h","t">>>>, "parse_length", <<<<"w","i","d","t","h">>>>),
    FieldDef("wing_area_m2", <<<<"w","i","n","g"," ","a","r","e","a">>>>, "parse_area", <<>>),
    FieldDef("engine_type", <<<<"e","n","g","i","n","e","s">>, <<"e","n","g","i","n","e">>>>, "clean_text", <<>>),
    FieldDef("engine_thrust_kn", <<<<"t","h","r","u","s","t">>>>, "parse_force", <<>>),
    FieldDef("service_ceiling_m", <<<<"c","e","i","l","i","n","g">>, <<"s","e","r","v","i","c","e"," ","c","e","i","l","i","n","g">>>>, "parse_length", <<>>),
    FieldDef("max_speed_kmh", <<<<"m","a","x","i","m","u","m"," ","s","p","e","e","d">>, <<"h","i","g","h"," ","s","p","e","e","d"," ","c","r","u","i","s","e">>>>, "parse_speed", <<>>),
    FieldDef("takeoff_distance_m", <<<<"t","a","k","e","o","f","f">>>>, "parse_length", <<>>),
    FieldDef("landing_distance_m", <<<<"l","a","n","d","i","n","g">>>>, "parse_length", <<>>),
    FieldDef("icao_type", <<<<"i","c","a","o">>, <<"i","c","a","o"," ","t","y","p","e">>>>, "clean_text", <<>>) >>

\* the defaults of the AircraftSpec dataclass
DefaultSeatKeywords ==
    <<<<"s","e","a","t","i","n","g">>, <<"3","-","c","l","a","s","s">>, <<"2","-","c","l","a","s","s">>, <<"p","a","s","s","e","n","g","e","r">>, <<"c","a","p","a","c","i","t","y">>, <<"m","a","x">>>>

DefaultRangeKeywords == <<<<"r","a","n","g","e">>>>

DefaultCruiseKeywords == <<<<"c","r","u","i","s","e">>, <<"c","r","u","i","s","i","n","g">>, <<"s","p","e","e","d">>>>

AircraftSpec(id, display_name, aircraft_class, fuel_profile, order, spec_type, role, variant_column, seat_keywords, default_seats) ==
    [id |-> id, display_name |-> display_name, aircraft_class |-> aircraft_class,
     fuel_profile |-> fuel_profile, order |-> order, spec_type |-> spec_type,
     role |-> role, variant_column |-> variant_column, seat_keywords |-> seat_keywords,
     range_keywords |-> DefaultRangeKeywords, cruise_keywords |-> DefaultCruiseKeywords,
     default_seats |-> default_seats]

(***************************************************************************)
(* Keyword matchers                                                        *)
(***************************************************************************)
\* a faulty key_in, as if the keyword were looped over character by character:
\* any character of the keyword found in the label counts
key_chars_in(key, idx) == \E i \in DOMAIN key : Contains(<<Lower(key[i])>>, LowerText(idx))

\* key.lower() in idx.lower()
key_in(key, idx) == Contains(LowerText(key), LowerText(idx))

\* a faulty any_skip: all() in place of any()
all_skip(skip_terms, label) ==
    \A i \in DOMAIN skip_terms : Contains(skip_terms[i], label)

\* any(skip in label for skip in skip_terms)
any_skip(skip_terms, label) ==
    \E i \in DOMAIN skip_terms : Contains(skip_terms[i], label)

has_index_keyword(index, keywords) ==
    \E r \in DOMAIN index : \E i \in DOMAIN keywords : key_in(keywords[i], index[r])

NotFound == [found |-> FALSE, value |-> <<>>, key |-> 0, row |-> 0]

Found(value, key, row) == [found |-> TRUE, value |-> value, key |-> key, row |-> row]

RECURSIVE RowLoop(_, _, _, _, _, _)
\* the nested loops of find_row_value from keyword k, row r on
RowLoop(df, column, keywords, skip_terms, k, r) ==
    IF k > Len(keywords) THEN NotFound
    ELSE IF r > Len(df.index) THEN RowLoop(df, column, keywords, skip_terms, k + 1, 1)
    ELSE LET idx == df.index[r]
             value == df.cells[r][column]
         IN  IF /\ key_in(keywords[k], idx)
                /\ ~any_skip(skip_terms, LowerText(idx))
                /\ value # <<>>
                /\ value # <<"n","a","n">>
             THEN Found(value, k, r)
             ELSE RowLoop(df, column, keywords, skip_terms, k, r + 1)

RECURSIVE RowMajorLoop(_, _, _, _, _, _)
\* the loops of find_row_value nested the other way round: rows outside, keywords
\* inside
RowMajorLoop(df, column, keywords, skip_terms, k, r) ==
    IF r > Len(df.index) THEN NotFound
    ELSE IF k > Len(keywords) THEN RowMajorLoop(df, column, keywords, skip_terms, 1, r + 1)
    ELSE IF /\ key_in(keywords[k], df.index[r])
            /\ ~any_skip(skip_terms, LowerText(df.index[r]))
            /\ df.cells[r][column] # <<>>
            /\ df.cells[r][column] # <<"n","a","n">>
         THEN Found(df.cells[r][column], k, r)
    ELSE RowMajorLoop(df, column, keywords, skip_terms, k + 1, r)

\* a faulty find_row_value: row order before keyword order
find_row_value_by_row(df, column, keywords, skip_terms) ==
    RowMajorLoop(df, column, keywords, skip_terms, 1, 1)

\* str(df.at[idx, column]) of the first row reached whose label has the keyword and
\* no skip term and whose cell is neither empty nor "nan", with the keyword and the
\* row it was found at; found = FALSE stands for the RuntimeError
find_row_value(df, column, keywords, skip_terms) ==
    RowLoop(df, column, keywords, skip_terms, 1, 1)

RECURSIVE ItemLoop(_, _, _, _, _)
\* the nested loops of find_in_list from keyword k, item r on
ItemLoop(items, keywords, skip_terms, k, r) ==
    IF k > Len(keywords) THEN NotFound
    ELSE IF r > Len(items) THEN ItemLoop(items, keywords, skip_terms, k + 1, 1)
    ELSE IF any_skip(skip_terms, items[r].label)
         THEN ItemLoop(items, keywords, skip_terms, k, r + 1)
    ELSE IF Contains(LowerText(keywords[k]), items[r].label)
         THEN Found(items[r].text, k, r)
    ELSE ItemLoop(items, keywords, skip_terms, k, r + 1)

\* found = FALSE stands for None
find_in_list(items, keywords, skip_terms) == ItemLoop(items, keywords, skip_terms, 1, 1)

RECURSIVE ValueLoop(_, _, _, _, _, _)

\* value is parser(text) of item r: returned when it is a true value (or an
\* exception, which leaves the loops), else the loops go on
ValueOr(items, keywords, parser, skip_terms, k, r, value) ==
    IF IsRaised(value) \/ Truthy(value) THEN [value |-> value, key |-> k, row |-> r]
    ELSE ValueLoop(items, keywords, parser, skip_terms, k, r + 1)

\* the nested loops of extract_li_value from keyword k, item r on
ValueLoop(items, keywords, parser, skip_terms, k, r) ==
    IF k > Len(keywords) THEN [value |-> None, key |-> 0, row |-> 0]
    ELSE IF r > Len(items) THEN ValueLoop(items, keywords, parser, skip_terms, k + 1, 1)
    ELSE IF any_skip(skip_terms, items[r].label)
         THEN ValueLoop(items, keywords, parser, skip_terms, k, r + 1)
    ELSE IF Contains(LowerText(keywords[k]), items[r].label)
         THEN ValueOr(items, keywords, parser, skip_terms, k, r, Parse(parser, items[r].text))
    ELSE ValueLoop(items, keywords, parser, skip_terms, k, r + 1)

\* the parsed value of the first item reached whose label has the keyword and no
\* skip term and whose text parses to a true value, with the keyword and the item
\* it was found at; None when there is none
extract_li_value(items, keywords, parser, skip_terms) ==
    ValueLoop(items, keywords, parser, skip_terms, 1, 1)

(***************************************************************************)
(* Field collection                                                        *)
(***************************************************************************)
\* a faulty keep_value: only None is dropped
keep_not_none(value) == value # None

\* a parsed value is stored unless it is None, a zero or a blank string
keep_value(value) ==
    /\ value # None
    /\ ~(value.k = "num" /\ value.m = 0)
    /\ ~(value.k = "str" /\ Strip(value.s) = <<>>)

Collected(raised, extras) == [raised |-> raised, extras |-> extras]

RECURSIVE StoreFields(_, _, _)

\* value is field.parser(raw) of field i: its exception leaves the loop
StoreValue(raws, i, extras, value) ==
    IF IsRaised(value) THEN Collected(TRUE, extras)
    ELSE IF keep_value(value)
    THEN StoreFields(raws, i + 1, (FIELD_DEFS[i].key :> value) @@ extras)
    ELSE StoreFields(raws, i + 1, extras)

\* the loop over FIELD_DEFS from field i on; raws[i] is what the matcher found for
\* field i
StoreFields(raws, i, extras) ==
    IF i > Len(FIELD_DEFS) THEN Collected(FALSE, extras)
    ELSE IF ~raws[i].found THEN StoreFields(raws, i + 1, extras)
    ELSE StoreValue(raws, i, extras, Parse(FIELD_DEFS[i].parser, raws[i].value))

collect_table_fields(df, column) ==
    StoreFields([i \in DOMAIN FIELD_DEFS |->
                    find_row_value(df, column, FIELD_DEFS[i].keywords, FIELD_DEFS[i].skip)],
                1, <<>>)

collect_list_fields(items) ==
    StoreFields([i \in DOMAIN FIELD_DEFS |->
                    find_in_list(items, FIELD_DEFS[i].keywords, FIELD_DEFS[i].skip)],
                1, <<>>)

(***************************************************************************)
(* Table extractor                                                         *)
(***************************************************************************)
\* what an extractor gives back: a result (k = "ok", with the table it was read
\* from) or an exception
Extracted(seats, range_km, cruise, extras, table) ==
    [k |-> "ok", exc |-> "", seats |-> seats, range_km |-> range_km, cruise |-> cruise,
     extras |-> extras, table |-> table]

Failed(exc) ==
    [k |-> "raise", exc |-> exc, seats |-> None, range_km |-> None, cruise |-> None,
     extras |-> <<>>, table |-> 0]

\* the loop goes on to the next table
Continue ==
    [k |-> "continue", exc |-> "", seats |-> None, range_km |-> None, cruise |-> None,
     extras |-> <<>>, table |-> 0]

\* a parsed table with its first column made the index: headers and first-column
\* values go through clean_text, the other cells are read as str(cell)
Indexed(raw_df) ==
    [index   |-> [r \in DOMAIN raw_df.rows |-> clean_text(raw_df.rows[r][1])],
     columns |-> [c \in 1..(Len(raw_df.columns) - 1) |-> clean_text(raw_df.columns[c + 1])],
     cells   |-> [r \in DOMAIN raw_df.rows |-> Tail(raw_df.rows[r])]]

FirstColumn(matched) == IF matched = {} THEN 0 ELSE Min(matched)

\* the data column: the first whose header contains variant_column, or the last
\* one when the profile names none; 0 when no header matches
ResolveColumn(plane, df) ==
    IF plane.variant_column # <<>>
    THEN FirstColumn({c \in DOMAIN df.columns :
                         Contains(LowerText(plane.variant_column), LowerText(df.columns[c]))})
    ELSE Len(df.columns)

\* x or 0.0
OrZero(x) == IF Truthy(x) THEN x ELSE Num(0, 0)

\* the seat row of the table, when the profile has seat keywords
SeatRow(plane, df, column) ==
    IF plane.seat_keywords # <<>>
    THEN find_row_value(df, column, plane.seat_keywords, <<<<"c","a","r","g","o">>, <<"r","a","n","g","e">>>>)
    ELSE NotFound

DefaultIfZero(plane, seats) ==
    IF seats.m = 0 /\ plane.default_seats # None THEN plane.default_seats ELSE seats

\* int(parse_number(seat_val) or 0) if seat_val else 0, then the default for 0
SeatCount(plane, seat) ==
    DefaultIfZero(plane, IF seat.found THEN IntOf(OrZero(parse_number(seat.value)))
                         ELSE Num(0, 0))

\* the end of a pass: the three values are checked and returned
ValuesStep(plane, extras, seats, range_km, speed, t) ==
    IF IsRaised(speed) THEN Failed("ValueError")
    ELSE IF seats.m = 0 /\ plane.role # "cargo" THEN Continue
    ELSE IF range_km.m = 0 \/ OrZero(speed).m = 0 THEN Continue
    ELSE Extracted(seats, range_km, OrZero(speed), extras, t)

\* a pass from the collected fields and the three rows on
RowsStep(plane, extras, seat, range_val, cruise_val, t) ==
    IF extras.raised THEN Failed("ValueError")
    ELSE IF ~seat.found /\ plane.default_seats = None THEN Continue
    ELSE IF ~range_val.found \/ ~cruise_val.found THEN Continue
    ELSE ValuesStep(plane, extras.extras, SeatCount(plane, seat),
                    OrZero(parse_distance(range_val.value)), parse_speed(cruise_val.value), t)

\* a pass from the resolved column on
ColumnStep(plane, df, column, t) ==
    IF column = 0 THEN Continue
    ELSE RowsStep(plane, collect_table_fields(df, column), SeatRow(plane, df, column),
                  find_row_value(df, column, plane.range_keywords, <<>>),
                  find_row_value(df, column, plane.cruise_keywords, <<>>), t)

\* a pass from the indexed table on: the seat and range signature of the table
IndexedStep(plane, df, t) ==
    IF plane.default_seats = None /\ ~has_index_keyword(df.index, plane.seat_keywords)
    THEN Continue
    ELSE IF ~has_index_keyword(df.index, plane.range_keywords) THEN Continue
    ELSE ColumnStep(plane, df, ResolveColumn(plane, df), t)

\* one pass of the loop over the tables of the document, on table t
TableStep(plane, raw_df, t) ==
    IF Len(raw_df.columns) < 2 THEN Continue ELSE IndexedStep(plane, Indexed(raw_df), t)

RECURSIVE TableLoop(_, _, _)

StepOr(plane, tables, t, step) ==
    IF step.k = "continue" THEN TableLoop(plane, tables, t + 1) ELSE step

\* the loop over the tables from table t on, and the RuntimeError after it
TableLoop(plane, tables, t) ==
    IF t > Len(tables) THEN Failed("RuntimeError")
    ELSE StepOr(plane, tables, t, TableStep(plane, tables[t], t))

\* pd.read_html raises ValueError when the document has no table at all
extract_table_spec(plane, tables) ==
    IF tables = <<>> THEN Failed("ValueError") ELSE TableLoop(plane, tables, 1)

(***************************************************************************)
(* List extractor                                                          *)
(***************************************************************************)
\* the (label, text) pairs of the <li> elements that have a <b> child
build_list_items(soup) ==
    [i \in DOMAIN SelectSeq(soup, LAMBDA li : li.has_bold) |->
        [label |-> LowerText(clean_text(SelectSeq(soup, LAMBDA li : li.has_bold)[i].bold)),
         text |-> SelectSeq(soup, LAMBDA li : li.has_bold)[i].text]]

SeatsOrDefault(plane, seats) == IF seats = None THEN plane.default_seats ELSE seats

\* the result of the list path, or the exception of a field's parser
ListFields(seats, range_km, cruise, extras) ==
    IF extras.raised THEN Failed("ValueError")
    ELSE Extracted(IntOf(seats), range_km, cruise, extras.extras, 0)

\* extract_list_spec after its three searches
ListValues(plane, items, seats, range_km, cruise) ==
    IF IsRaised(cruise) THEN Failed("ValueError")
    ELSE IF seats = None /\ plane.default_seats = None THEN Failed("RuntimeError")
    ELSE IF range_km = None \/ cruise = None THEN Failed("RuntimeError")
    ELSE ListFields(SeatsOrDefault(plane, seats), range_km, cruise, collect_list_fields(items))

extract_list_items(plane, items) ==
    ListValues(plane, items,
               extract_li_value(items, plane.seat_keywords, "parse_number",
                                <<<<"w","i","d","t","h">>, <<"p","i","t","c","h">>, <<"c","a","r","g","o">>, <<"r","a","n","g","e">>>>).value,
               extract_li_value(items, plane.range_keywords, "parse_distance", <<>>).value,
               extract_li_value(items, plane.cruise_keywords, "parse_speed", <<>>).value)

extract_list_spec(plane, soup) == extract_list_items(plane, build_list_items(soup))

(***************************************************************************)
(* Derived metrics and the record assembler                                *)
(***************************************************************************)
\* data.get(key): None when the key is absent
Get(data, key) == IF key \in DOMAIN data THEN data[key] ELSE None

\* a faulty PayloadOrMtow: no fall back to mtow_kg
PayloadOnly(data) == Get(data, "max_payload_kg")

\* data.get("max_payload_kg") or data.get("mtow_kg")
PayloadOrMtow(data) ==
    IF Truthy(Get(data, "max_payload_kg")) THEN data["max_payload_kg"]
    ELSE Get(data, "mtow_kg")

\* the base of the profile's model, 0.0 when the record has none
ModelBase(profile, data) ==
    IF profile.basis = "seats" THEN OrZero(Get(data, "seats"))
    ELSE IF profile.basis = "payload" THEN OrZero(PayloadOrMtow(data))
    ELSE Num(0, 0)

\* the seats take the place of a base that is not positive
SeatsIfNone(base, data) ==
    IF base.m <= 0 /\ Truthy(Get(data, "seats")) THEN data["seats"] ELSE base

CostOf(base, profile) ==
    IF base.m <= 0 THEN Num(0, 0) ELSE Round(Times(base, profile.m, profile.e), 2)

compute_fuel_cost(plane, data) ==
    CostOf(SeatsIfNone(ModelBase(FUEL_PROFILES[plane.fuel_profile], data), data),
           FUEL_PROFILES[plane.fuel_profile])

SeatKeys == {"three_class_seats", "two_class_seats", "one_class_max_seats"}

\* entry.pop(key, None) for every key of keys
Without(entry, keys) == [key \in DOMAIN entry \ keys |-> entry[key]]

\* entry[key] = value
With(entry, key, value) == (key :> value) @@ entry

\* a faulty suppress_cargo: the seats are set to 0 and the seat keys stay
keep_seat_keys(plane, entry) ==
    IF plane.role = "cargo" THEN With(entry, "seats", Num(0, 0)) ELSE entry

\* a cargo record loses the seat keys and has its seats set to 0
suppress_cargo(plane, entry) ==
    IF plane.role = "cargo"
    THEN With(Without(entry, SeatKeys), "seats", Num(0, 0))
    ELSE entry

\* what build_entry gives back: the record (k = "ok"), with the table it was read
\* from, or the exception
Built(entry, table) == [k |-> "ok", exc |-> "", entry |-> entry, table |-> table]

NotBuilt(exc) == [k |-> "raise", exc |-> exc, entry |-> <<>>, table |-> 0]

WithFuelCost(plane, entry) ==
    With(entry, "fuel_cost_per_km", compute_fuel_cost(plane, entry))

\* the record of an extraction
EntryOf(plane, got) ==
    WithFuelCost(plane,
        suppress_cargo(plane,
            got.extras @@
            [id |-> Str(plane.id), name |-> Str(plane.display_name),
             range_km |-> Round(got.range_km, 1), seats |-> got.seats,
             cruise_kmh |-> Round(got.cruise, 1), role |-> Str(plane.role),
             turnaround_min |-> Num(TURNAROUND_BY_CLASS[plane.aircraft_class], 0)]))

Assembled(plane, got) ==
    IF got.k = "raise" THEN NotBuilt(got.exc) ELSE Built(EntryOf(plane, got), got.table)

\* the extractor of the profile's strategy on the document
Extraction(plane, doc) ==
    IF plane.spec_type = "table" THEN extract_table_spec(plane, doc.tables)
    ELSE extract_list_spec(plane, doc.soup)

\* the record of one profile from its fetched document, or the exception raised
\* (HTTPError stands for whatever fetch_html raises)
build_entry(plane, doc) ==
    IF ~doc.fetched THEN NotBuilt("HTTPError") ELSE Assembled(plane, Extraction(plane, doc))

(***************************************************************************)
(* Inputs: profiles and documents                                          *)
(***************************************************************************)
MaxTables == 2

MaxItems == 3

MaxPlanes == 3

Injective(seq) == \A i, j \in DOMAIN seq : seq[i] = seq[j] => i = j

\* the sequences of at most n different elements of S
SeqsUpTo(S, n) == {seq \in UNION {[1..len -> S] : len \in 0..n} : Injective(seq)}

\* five entries of PLANES
A320 == AircraftSpec("A320", "Airbus A320ceo", "narrowbody", "narrowbody_classic", 13,
                     "table", "passenger", <<"A","3","2","0">>, DefaultSeatKeywords, None)

B737_700 == AircraftSpec("B737-700", "Boeing 737-700", "narrowbody", "narrowbody_classic", 10,
                         "list", "passenger", <<>>, DefaultSeatKeywords, None)

A350_900 == AircraftSpec("A350-900", "Airbus A350-900", "widebody", "widebody_modern", 24,
                         "list", "passenger", <<>>,
                         <<<<"s","e","a","t">>, <<"p","a","s","s","e","n","g","e","r">>, <<"c","a","p","a","c","i","t","y">>>>, None)

A330_200F == AircraftSpec("A330-200F", "Airbus A330-200F", "widebody", "cargo_widebody", 28,
                          "table", "cargo", <<>>, <<>>, Num(0, 0))

B747_8F == AircraftSpec("B747-8F", "Boeing 747-8F", "jumbo", "cargo_jumbo", 29,
                        "table", "cargo", <<"7","4","7","-","8","F">>, <<>>, Num(0, 0))

\* profiles PLANES does not hold and build_entry accepts: a cargo profile that
\* keeps the seat keywords (table and list), passenger profiles with a default
\* seat count
CargoList == AircraftSpec("CargoList", "Cargo, list", "widebody", "cargo_widebody", 40,
                          "list", "cargo", <<>>, DefaultSeatKeywords, None)

CargoSeats == AircraftSpec("CargoSeats", "Cargo, seat rows", "jumbo", "cargo_jumbo", 41,
                           "table", "cargo", <<"7","4","7","-","8","F">>, DefaultSeatKeywords, None)

PaxListDefault == AircraftSpec("PaxListDefault", "Passenger, list, default 0", "regional",
                               "regional_jet", 42, "list", "passenger", <<>>,
                               DefaultSeatKeywords, Num(0, 0))

PaxTableDefault == AircraftSpec("PaxTableDefault", "Passenger, table, default 0", "regional",
                                "regional_jet", 43, "table", "passenger", <<>>,
                                DefaultSeatKeywords, Num(0, 0))

Profiles == {A320, B737_700, A350_900, A330_200F, B747_8F,
             CargoList, CargoSeats, PaxListDefault, PaxTableDefault}

Table(columns, rows) == [columns |-> columns, rows |-> rows]

\* a specification table of a passenger type
PaxTable == Table(<<<<"V","a","r","i","a","n","t">>, <<"A","3","2","0","[","1","]">>, <<"A","3","2","1">>>>,
                  <<<<<<"S","e","a","t","i","n","g">>, <<"1","8","0">>, <<"2","2","0">>>>,
                    <<<<"3","-","c","l","a","s","s"," ","s","e","a","t","s">>, <<"1","5","0">>, <<"1","8","5">>>>,
                    <<<<"R","a","n","g","e","[","2","]">>, <<"3",",","3","0","0"," ","n","m","i">>, <<"5",",","9","3","0"," ","k","m">>>>,
                    <<<<"C","r","u","i","s","e"," ","s","p","e","e","d">>, <<"M","a","c","h"," ","0",".","7","8">>, <<"8","2","8"," ","k","m","/","h">>>>>>)

\* a specification table of a freighter that still lists seats
CargoTable == Table(<<<<"V","a","r","i","a","n","t">>, <<"7","4","7","-","8","I">>, <<"7","4","7","-","8","F">>>>,
                    <<<<<<"3","-","c","l","a","s","s"," ","s","e","a","t","s">>, <<"4","1","0">>, <<"4","1","0">>>>,
                      <<<<"M","a","x"," ","s","e","a","t","i","n","g">>, <<"6","0","5">>, <<"n","a","n">>>>,
                      <<<<"M","T","O","W">>, <<"8","0",",","0","0","0"," ","k","g">>, <<"8","0",",","0","0","0"," ","k","g">>>>,
                      <<<<"r","a","n","g","e">>, <<"7",",","7","3","0"," ","n","m","i">>, <<"4",",","1","2","0"," ","n","m","i">>>>,
                      <<<<"S","p","e","e","d">>, <<"M","a","c","h"," ","0",".","8","5","5">>, <<"M","a","c","h"," ","0",".","8","4","5">>>>>>)

\* a table with seat and speed rows and no range row
NoRangeTable == Table(<<<<"V","a","r","i","a","n","t">>, <<"A","3","2","0">>, <<"7","4","7","-","8","F">>>>,
                      <<<<<<"C","r","u","i","s","e">>, <<"8","2","8"," ","k","m","/","h">>, <<"9","0","0"," ","k","m","/","h">>>>,
                        <<<<"S","e","a","t","i","n","g">>, <<"1","5","0">>, <<"0">>>>>>)

\* a table whose cruise speed rounds to 0.0 and whose range cell is unreadable in
\* one column
SlowTable == Table(<<<<"T","y","p","e">>, <<"A","3","2","0">>, <<"7","4","7","-","8","F">>>>,
                   <<<<<<"P","a","s","s","e","n","g","e","r","s">>, <<"1","2">>, <<"n","a","n">>>>,
                     <<<<"R","a","n","g","e">>, <<"u","n","k","n","o","w","n">>, <<"1"," ","m","i">>>>,
                     <<<<"S","p","e","e","d">>, <<"M","a","c","h"," ","0",".","0","0","0","0","4">>, <<"M","a","c","h"," ","0",".","0","0","0","0","4">>>>>>)

\* a table with malformed numerals
BadTable == Table(<<<<"T","y","p","e">>, <<"A","3","2","0">>, <<"7","4","7","-","8","F">>>>,
                  <<<<<<"C","a","p","a","c","i","t","y">>, <<"1","0","0">>, <<"1","0","0">>>>,
                    <<<<"L","e","n","g","t","h">>, <<"3","7",".","5","7"," ","m">>, <<"1",".","2",".","3"," ","m">>>>,
                    <<<<"R","a","n","g","e">>, <<"9","0","0"," ","k","m">>, <<"9","0","0"," ","k","m">>>>,
                    <<<<"S","p","e","e","d">>, <<"M","a","c","h"," ",".">>, <<"5","0","0"," ","m","p","h">>>>>>)

\* a table of one column
OneColumn == Table(<<<<"R","a","n","g","e">>>>, <<<<<<"5",",","0","0","0"," ","k","m">>>>>>)

TableSamples == {PaxTable, CargoTable, NoRangeTable, SlowTable, BadTable, OneColumn}

Li(bold, text) == [has_bold |-> TRUE, bold |-> bold, text |-> text]

NoBoldLi(text) == [has_bold |-> FALSE, bold |-> <<>>, text |-> text]

LiSamples == {Li(<<"S","e","a","t"," ","p","i","t","c","h">>, <<"S","e","a","t"," ","p","i","t","c","h"," ","3","0"," ","i","n">>),
              Li(<<"M","a","x"," ","s","e","a","t","i","n","g">>, <<"M","a","x"," ","s","e","a","t","i","n","g"," ","1","8","9">>),
              Li(<<"R","a","n","g","e","[","3","]">>, <<"R","a","n","g","e"," ","3",",","0","1","0"," ","n","m","i">>),
              Li(<<"C","r","u","i","s","e"," ","s","p","e","e","d">>, <<"C","r","u","i","s","e"," ","s","p","e","e","d"," ","M","a","c","h"," ","0",".","0","0","0","0","4">>),
              Li(<<"S","p","e","e","d">>, <<"S","p","e","e","d"," ","8","3","8"," ","k","m","/","h">>),
              NoBoldLi(<<"R","a","n","g","e"," ","9"," ","k","m">>)}

Document(tables, soup) == [fetched |-> TRUE, tables |-> tables, soup |-> soup]

\* fetch_html raised
NoDocument == [fetched |-> FALSE, tables |-> <<>>, soup |-> <<>>]

\* the documents a profile is tried on: build_entry reads the tables of the
\* document for a table profile and its <li> elements for a list profile
DocumentsFor(plane) ==
    {NoDocument} \cup
    IF plane.spec_type = "table"
    THEN {Document(tables, <<>>) : tables \in SeqsUpTo(TableSamples, MaxTables)}
    ELSE {Document(<<>>, soup) : soup \in SeqsUpTo(LiSamples, MaxItems)}

\* no record of the batch
Idle == /\ PLANES = <<>> /\ pos = 0 /\ entries = <<>> /\ written = <<>> /\ calls = <<>>

(***************************************************************************)
(* One call of build_entry                                                 *)
(***************************************************************************)
InitEntry == /\ Idle
             /\ fn = "build_entry"
             /\ \E plane \in Profiles : \E doc \in DocumentsFor(plane) :
                    args = [plane |-> plane, doc |-> doc]
             /\ ret = None
             /\ pc = "call"

CallBuildEntry == /\ pc = "call"
                  /\ fn = "build_entry"
                  /\ ret' = build_entry(args.plane, args.doc)
                  /\ pc' = "returned"
                  /\ UNCHANGED <<PLANES, pos, entries, written, calls, fn, args>>

SpecEntry == InitEntry /\ [][CallBuildEntry]_vars

(***************************************************************************)
(* One call of a unit parser                                               *)
(***************************************************************************)
TextSamples == {<<"4","0","0"," ","k","m","/","h">>, <<"2","5","0"," ","m","p","h">>, <<"M","a","c","h"," ","0",".","8","5">>, <<"M","a","c","h"," ",".">>, <<"1",".","2",".","3"," ","m">>,
                <<"3","7",".","5","7"," ","m">>, <<"3",",","3","0","0"," ","n","m","i">>, <<"3","0"," ","f","t","[","4","]">>, <<"1","2","2",".","6"," ","m","2">>, <<"8","0",",","0","0","0"," ","k","g">>,
                <<"5",".",".","5"," ","U","S"," ","g","a","l">>, <<"1",".","1","."," ","k","N">>, <<"1","6","0"," ","m","3">>, <<"u","n","k","n","o","w","n">>, <<>>}

InitParse == /\ Idle
             /\ fn \in ParserNames
             /\ args \in TextSamples
             /\ ret = None
             /\ pc = "call"

CallParser == /\ pc = "call"
              /\ fn \in ParserNames
              /\ ret' = Parse(fn, args)
              /\ pc' = "returned"
              /\ UNCHANGED <<PLANES, pos, entries, written, calls, fn, args>>

SpecParse == InitParse /\ [][CallParser]_vars

(***************************************************************************)
(* One call of a keyword matcher                                           *)
(***************************************************************************)
MaxRows == 3

\* (label, text) pairs: a table row with its cell, or the bold lead of an <li>
\* with the text of the <li>
PairSamples == {<<<<"S","e","a","t"," ","p","i","t","c","h">>, <<"s","e","a","t"," ","p","i","t","c","h",":"," ","3","0"," ","i","n">>>>,
                <<<<"S","e","a","t","i","n","g"," ","c","a","p","a","c","i","t","y">>, <<"s","e","a","t","i","n","g"," ","c","a","p","a","c","i","t","y",":"," ","1","8","0">>>>,
                <<<<"S","e","a","t","i","n","g">>, <<"n","a","n">>>>,
                <<<<"C","a","r","g","o"," ","c","a","p","a","c","i","t","y">>, <<"2","7"," ","t">>>>,
                <<<<"M","a","x"," ","s","p","e","e","d">>, <<"M","a","c","h"," ",".">>>>}

\* keywords and skip terms of the call sites
KeywordSamples == {DefaultSeatKeywords, <<<<"s","e","a","t">>, <<"p","a","s","s","e","n","g","e","r">>, <<"c","a","p","a","c","i","t","y">>>>}

SkipSamples == {<<>>, <<<<"c","a","r","g","o">>, <<"r","a","n","g","e">>>>, <<<<"w","i","d","t","h">>, <<"p","i","t","c","h">>, <<"c","a","r","g","o">>, <<"r","a","n","g","e">>>>}

\* the table with the pairs as rows, its first column made the index
AsTable(pairs) == Indexed(Table(<<<<"S","p","e","c">>, <<"V","a","l","u","e">>>>, pairs))

\* the items of the <li> elements with the pairs as bold lead and text
AsItems(pairs) == build_list_items([i \in DOMAIN pairs |-> Li(pairs[i][1], pairs[i][2])])

\* the matcher name on the pairs
Matcher(name, pairs, keywords, skip_terms, parser) ==
    CASE name = "find_row_value" -> find_row_value(AsTable(pairs), 1, keywords, skip_terms)
      [] name = "find_in_list" -> find_in_list(AsItems(pairs), keywords, skip_terms)
      [] name = "extract_li_value" ->
            extract_li_value(AsItems(pairs), keywords, parser, skip_terms)

ParsersOf(name) ==
    IF name = "extract_li_value" THEN {"parse_number", "parse_speed"} ELSE {"none"}

InitMatch == /\ Idle
             /\ fn \in {"find_row_value", "find_in_list", "extract_li_value"}
             /\ args \in [pairs : SeqsUpTo(PairSamples, MaxRows), keywords : KeywordSamples,
                          skip_terms : SkipSamples, parser : ParsersOf(fn)]
             /\ ret = None
             /\ pc = "call"

CallMatcher(name) ==
    /\ pc = "call"
    /\ fn = name
    /\ ret' = Matcher(name, args.pairs, args.keywords, args.skip_terms, args.parser)
    /\ pc' = "returned"
    /\ UNCHANGED <<PLANES, pos, entries, written, calls, fn, args>>

CallFindRowValue == CallMatcher("find_row_value")

CallFindInList == CallMatcher("find_in_list")

CallExtractLiValue == CallMatcher("extract_li_value")

SpecMatch == InitMatch /\ [][CallFindRowValue \/ CallFindInList \/ CallExtractLiValue]_vars

(***************************************************************************)
(* One call of compute_fuel_cost                                           *)
(***************************************************************************)
\* records with and without each basis; Num(1, 0) marks a key the record lacks
DataSamples ==
    {[key \in {k \in {"seats", "max_payload_kg", "mtow_kg"} : v[k] # Num(1, 0)} |-> v[key]] :
        v \in [seats : {Num(1, 0), Num(0, 0), Num(180, 0)},
               max_payload_kg : {Num(1, 0), Num(0, 0), Num(50000, 0)},
               mtow_kg : {Num(1, 0), Num(0, 0), Num(80000, 0)}]}

InitFuel == /\ Idle
            /\ fn = "compute_fuel_cost"
            /\ args \in [plane : Profiles, data : DataSamples]
            /\ ret = None
            /\ pc = "call"

CallComputeFuelCost ==
    /\ pc = "call"
    /\ fn = "compute_fuel_cost"
    /\ ret' = compute_fuel_cost(args.plane, args.data)
    /\ pc' = "returned"
    /\ UNCHANGED <<PLANES, pos, entries, written, calls, fn, args>>

SpecFuel == InitFuel /\ [][CallComputeFuelCost]_vars

(***************************************************************************)
(* The batch run of main                                                   *)
(***************************************************************************)
RECURSIVE Insert(_, _)
\* plane put into a list sorted by order, after the planes of the same order
Insert(plane, sorted) ==
    IF sorted = <<>> THEN <<plane>>
    ELSE IF plane.order < Head(sorted).order THEN <<plane>> \o sorted
    ELSE <<Head(sorted)>> \o Insert(plane, Tail(sorted))

RECURSIVE SortedByOrder(_)
\* sorted(planes, key=lambda p: p.order), a stable sort
SortedByOrder(planes) ==
    IF planes = <<>> THEN <<>>
    ELSE Insert(planes[Len(planes)], SortedByOrder(SubSeq(planes, 1, Len(planes) - 1)))

\* a faulty Visited: the profiles in the order of the list
Unsorted(planes) == planes

\* the order main visits the profiles in
Visited(planes) == SortedByOrder(planes)

BatchProfiles == {A320, B737_700, A350_900, A330_200F, B747_8F}

\* the pages fetch_html can return to the batch: one with the tables and the list
\* the profiles look for, one without, or an HTTP error
BatchDocuments ==
    {Document(<<PaxTable, CargoTable>>,
              <<Li(<<"M","a","x"," ","s","e","a","t","i","n","g">>, <<"M","a","x"," ","s","e","a","t","i","n","g"," ","1","8","9">>), Li(<<"R","a","n","g","e","[","3","]">>, <<"R","a","n","g","e"," ","3",",","0","1","0"," ","n","m","i">>),
                Li(<<"S","p","e","e","d">>, <<"S","p","e","e","d"," ","8","3","8"," ","k","m","/","h">>)>>),
     Document(<<OneColumn>>, <<>>),
     NoDocument}

Init == /\ PLANES \in SeqsUpTo(BatchProfiles, MaxPlanes)
        /\ pos = 0
        /\ entries = <<>>
        /\ written = <<>>
        /\ calls = <<>>
        /\ pc = "loop"
        /\ fn = "main"
        /\ args = <<>>
        /\ ret = None

\* a faulty Returned, as if main caught the exception and went on to the next
\* profile
ReturnedSkipping(plane, built) ==
    /\ calls' = Append(calls, [id |-> plane.id, built |-> built])
    /\ pos' = pos + 1
    /\ pc' = pc
    /\ entries' = IF built.k = "ok" THEN Append(entries, built.entry) ELSE entries

\* main after build_entry returned built, or raised, for plane
Returned(plane, built) ==
    /\ calls' = Append(calls, [id |-> plane.id, built |-> built])
    /\ IF built.k = "ok"
       THEN /\ entries' = Append(entries, built.entry)
            /\ pos' = pos + 1
            /\ pc' = pc
       ELSE /\ pc' = "raised"
            /\ UNCHANGED <<entries, pos>>

BuildNext(plane, doc) == Returned(plane, build_entry(plane, doc))

\* one pass of the loop of main: build_entry on the next profile; its exception
\* leaves main
Iterate(doc) ==
    /\ pc = "loop"
    /\ pos < Len(PLANES)
    /\ BuildNext(Visited(PLANES)[pos + 1], doc)
    /\ UNCHANGED <<PLANES, written, fn, args, ret>>

\* json.dump(entries, fh) after the loop
Write ==
    /\ pc = "loop"
    /\ pos = Len(PLANES)
    /\ written' = entries
    /\ pc' = "written"
    /\ UNCHANGED <<PLANES, pos, entries, calls, fn, args, ret>>

Next == (\E doc \in BatchDocuments : Iterate(doc)) \/ Write

Spec == Init /\ [][Next]_vars

(***************************************************************************)
(* One call of collect_table_fields or collect_list_fields                 *)
(***************************************************************************)
\* (label, text) pairs whose text a field parser reads a value from, reads a
\* zero from, reads nothing from, reads a blank or a true string from, or raises
\* on; "nan" is the cell pandas leaves empty
FieldSamples == {<<<<"L","e","n","g","t","h">>, <<"3","7",".","5","7"," ","m">>>>,
                 <<<<"W","i","n","g","s","p","a","n">>, <<"0"," ","m">>>>,
                 <<<<"E","n","g","i","n","e","s">>, <<"[","1","]">>>>,
                 <<<<"I","C","A","O"," ","t","y","p","e">>, <<"A","3","2","0","[","2","]">>>>,
                 <<<<"C","r","e","w","[","3","]">>, <<"0">>>>,
                 <<<<"T","h","r","u","s","t">>, <<"1",".","1","."," ","k","N">>>>,
                 <<<<"M","T","O","W">>, <<"n","a","n">>>>}

InitCollect == /\ Idle
               /\ fn \in {"collect_table_fields", "collect_list_fields"}
               /\ args \in SeqsUpTo(FieldSamples, MaxRows)
               /\ ret = None
               /\ pc = "call"

CallCollectTableFields ==
    /\ pc = "call"
    /\ fn = "collect_table_fields"
    /\ ret' = collect_table_fields(AsTable(args), 1)
    /\ pc' = "returned"
    /\ UNCHANGED <<PLANES, pos, entries, written, calls, fn, args>>

CallCollectListFields ==
    /\ pc = "call"
    /\ fn = "collect_list_fields"
    /\ ret' = collect_list_fields(AsItems(args))
    /\ pc' = "returned"
    /\ UNCHANGED <<PLANES, pos, entries, written, calls, fn, args>>

SpecCollect == InitCollect /\ [][CallCollectTableFields \/ CallCollectListFields]_vars

(***************************************************************************)
(* Properties of build_entry (SpecEntry)                                   *)
(***************************************************************************)
\* C1: a record build_entry returns for a cargo profile has seats 0 and none of
\* the keys three_class_seats, two_class_seats, one_class_max_seats, also when
\* the document has rows or items that match a seat keyword or one of these
\* fields.
C1_CargoSuppression ==
    (pc = "returned" /\ args.plane.role = "cargo" /\ ret.k = "ok") =>
        /\ ret.entry["seats"] = Num(0, 0)
        /\ DOMAIN ret.entry \cap SeatKeys = {}

\* a cargo record from a document whose extraction found seats and a seat field
C1_Witness ==
    /\ pc = "returned"
    /\ args.plane.role = "cargo"
    /\ ret.k = "ok"
    /\ Truthy(Extraction(args.plane, args.doc).seats)
    /\ DOMAIN Extraction(args.plane, args.doc).extras \cap SeatKeys # {}

\* C2: build_entry fails or returns a record whose range_km and cruise_kmh, as
\* emitted after rounding to 1 decimal, are both non-zero.
C2_RangeAndCruiseNonZero ==
    (pc = "returned" /\ ret.k = "ok") =>
        /\ ret.entry["range_km"] # Num(0, 0)
        /\ ret.entry["cruise_kmh"] # Num(0, 0)

\* C3: on the table path and on the list path, for every default_seats, a record
\* of a passenger profile has a non-zero seat count.
C3_PassengerSeatsNonZero ==
    (pc = "returned" /\ args.plane.role = "passenger" /\ ret.k = "ok") =>
        ret.entry["seats"] # Num(0, 0)

\* the rows of a parsed table whose label holds a range keyword of the profile
RangeRows(plane, raw_df) ==
    {r \in DOMAIN raw_df.rows :
        \E i \in DOMAIN plane.range_keywords :
            Contains(LowerText(plane.range_keywords[i]),
                     LowerText(clean_text(raw_df.rows[r][1])))}

\* C4: the table extract_table_spec returns its result from has a row label that
\* contains one of the profile's range keywords, whatever the case of the
\* letters, and the range of the record is read from a cell of such a row; with
\* no such table in the document, a single table included, the extraction fails.
C4_SelectedTableHasRangeRow ==
    (pc = "returned" /\ args.plane.spec_type = "table" /\ ret.k = "ok") =>
        /\ ret.table \in DOMAIN args.doc.tables
        /\ \E r \in RangeRows(args.plane, args.doc.tables[ret.table]) :
              \E c \in 2..Len(args.doc.tables[ret.table].columns) :
                  ret.entry["range_km"] =
                      Round(parse_distance(args.doc.tables[ret.table].rows[r][c]), 1)

\* a record read from the second table of a document whose first table has rows
\* and no range row
C4_Witness ==
    /\ pc = "returned"
    /\ args.plane.spec_type = "table"
    /\ ret.k = "ok"
    /\ ret.table = 2
    /\ Len(args.doc.tables[1].columns) > 1
    /\ RangeRows(args.plane, args.doc.tables[1]) = {}

(***************************************************************************)
(* Properties of the unit parsers (SpecParse)                              *)
(***************************************************************************)
\* C5: every unit parser returns a number or None on every text and never
\* raises, also when a unit stands next to a malformed numeral.
C5_ParsersNeverRaise ==
    pc = "returned" => ret.k \in {"num", "none"}

(***************************************************************************)
(* Properties of the batch run (Spec)                                      *)
(***************************************************************************)
\* C6 as stated: a failure of build_entry for one profile does not abort the
\* batch; when main has ended, build_entry has been attempted for every profile.
C6_EveryProfileAttempted ==
    pc \in {"raised", "written"} =>
        \A i \in DOMAIN PLANES : \E c \in DOMAIN calls : calls[c].id = PLANES[i].id

\* C6: a failure of build_entry for one profile ends the batch: it is the last
\* call of the run, the calls before it are those of the profiles before it in
\* ascending order, their records are the only ones built, no profile after it
\* is attempted and nothing is written.
C6_FailureEndsBatch ==
    \A c \in DOMAIN calls :
        calls[c].built.k = "raise" =>
            /\ c = Len(calls)
            /\ pc = "raised"
            /\ written = <<>>
            /\ \A i \in 1..c : calls[i].id = SortedByOrder(PLANES)[i].id
            /\ entries = [i \in 1..(c - 1) |-> calls[i].built.entry]

\* a failure after a profile that succeeded and before a profile never attempted
C6_Witness ==
    /\ pc = "raised"
    /\ Len(calls) >= 2
    /\ Len(calls) < Len(PLANES)
    /\ calls[Len(calls)].built.k = "raise"

\* the order field of the profile a record is of
OrderOf(record) == (CHOOSE plane \in BatchProfiles : plane.id = record["id"].s).order

\* C7: when every profile succeeds, main writes one record per profile, in
\* ascending order of the profiles' order field whatever their order in PLANES;
\* build_entry is called once per profile and a record is the one its call
\* returned from then on.
C7_OnePerProfileInOrder ==
    /\ \A i \in DOMAIN entries : entries[i] = calls[i].built.entry
    /\ \A i, j \in DOMAIN calls : calls[i].id = calls[j].id => i = j
    /\ pc = "written" =>
        /\ written = entries
        /\ Len(written) = Len(PLANES)
        /\ Len(calls) = Len(PLANES)
        /\ \A i \in DOMAIN PLANES :
              \E j \in DOMAIN written : written[j]["id"].s = PLANES[i].id
        /\ \A i, j \in DOMAIN written :
              i < j => OrderOf(written[i]) < OrderOf(written[j])

\* three records written from a list that is not in ascending order
C7_Witness ==
    /\ pc = "written"
    /\ Len(written) = MaxPlanes
    /\ PLANES[1].order > PLANES[2].order
    /\ PLANES[2].order < PLANES[3].order

(***************************************************************************)
(* Properties of the keyword matchers (SpecMatch)                          *)
(***************************************************************************)
\* the label of entry r as the matchers compare it
Label(r) == LowerText(clean_text(args.pairs[r][1]))

\* the text of entry r: the cell of the row, or the text of the item
Text(r) ==
    IF fn = "find_row_value" THEN AsTable(args.pairs).cells[r][1]
    ELSE AsItems(args.pairs)[r].text

Excluded(r) == \E s \in DOMAIN args.skip_terms : Contains(args.skip_terms[s], Label(r))

\* keyword k is in the label of entry r and no exclusion term is
LabelHit(k, r) == Contains(LowerText(args.keywords[k]), Label(r)) /\ ~Excluded(r)

\* entry r has a value the matcher can return: a table cell that is not NaN, any
\* item text, a text the parser reads a true value from or raises on
Usable(r) ==
    CASE fn = "find_row_value" -> Text(r) # <<>> /\ Text(r) # <<"n", "a", "n">>
      [] fn = "find_in_list" -> TRUE
      [] fn = "extract_li_value" ->
            IsRaised(Parse(args.parser, Text(r))) \/ Truthy(Parse(args.parser, Text(r)))

UsableHit(k, r) == LabelHit(k, r) /\ Usable(r)

\* what the matcher returns from entry r
ValueAt(r) == IF fn = "extract_li_value" THEN Parse(args.parser, Text(r)) ELSE Text(r)

\* (k, r) is the first pair of Hit, keywords before entries
FirstIn(Hit(_, _), k, r) ==
    /\ Hit(k, r)
    /\ \A k2 \in DOMAIN args.keywords : \A r2 \in DOMAIN args.pairs :
          Hit(k2, r2) => ~(k2 < k \/ (k2 = k /\ r2 < r))

Kept ==
    SelectSeq(args.pairs,
              LAMBDA pair : \A s \in DOMAIN args.skip_terms :
                  ~Contains(args.skip_terms[s], LowerText(clean_text(pair[1]))))

\* C9: the entry a keyword matcher returns never has a label containing an
\* exclusion term, and an excluded entry does not stop the search: the result
\* is the one of the search on the source without its excluded entries ('seat
\* pitch', 'seating capacity: 180' with exclusion 'pitch' give the second entry,
\* value 180).
C9_ExcludedNeverReturned ==
    pc = "returned" =>
        /\ ret.row # 0 => ~Excluded(ret.row)
        /\ ret.value = Matcher(fn, Kept, args.keywords, args.skip_terms, args.parser).value
        /\ ret.key = Matcher(fn, Kept, args.keywords, args.skip_terms, args.parser).key
        /\ (/\ fn = "extract_li_value"
            /\ args.parser = "parse_number"
            /\ args.pairs = <<<<<<"S","e","a","t"," ","p","i","t","c","h">>, <<"s","e","a","t"," ","p","i","t","c","h",":"," ","3","0"," ","i","n">>>>,
                              <<<<"S","e","a","t","i","n","g"," ","c","a","p","a","c","i","t","y">>, <<"s","e","a","t","i","n","g"," ","c","a","p","a","c","i","t","y",":"," ","1","8","0">>>>>>
            /\ args.keywords[1] = <<"s","e","a","t">>
            /\ \E s \in DOMAIN args.skip_terms : args.skip_terms[s] = <<"p","i","t","c","h">>)
           => ret.row = 2 /\ ret.value = Num(180, 0)

\* the search for "seat" over 'seat pitch', 'seating capacity: 180' with "pitch"
\* among the exclusion terms
C9_Witness ==
    /\ pc = "returned"
    /\ fn = "extract_li_value"
    /\ args.parser = "parse_number"
    /\ args.pairs = <<<<<<"S","e","a","t"," ","p","i","t","c","h">>, <<"s","e","a","t"," ","p","i","t","c","h",":"," ","3","0"," ","i","n">>>>,
                      <<<<"S","e","a","t","i","n","g"," ","c","a","p","a","c","i","t","y">>, <<"s","e","a","t","i","n","g"," ","c","a","p","a","c","i","t","y",":"," ","1","8","0">>>>>>
    /\ args.keywords[1] = <<"s","e","a","t">>
    /\ \E s \in DOMAIN args.skip_terms : args.skip_terms[s] = <<"p","i","t","c","h">>
    /\ ret.row = 2
    /\ ret.value = Num(180, 0)

(***************************************************************************)
(* Properties of compute_fuel_cost (SpecFuel)                              *)
(***************************************************************************)
\* the record has the key with a non-zero value
Present(data, key) == key \in DOMAIN data /\ data[key] # Num(0, 0)

\* the basis the model of the profile chooses
ChosenBasis(plane, data) ==
    IF FUEL_PROFILES[plane.fuel_profile].basis = "seats" THEN "seats"
    ELSE IF Present(data, "max_payload_kg") THEN "max_payload_kg"
    ELSE "mtow_kg"

\* the basis the cost is computed from, "none" when there is none
UsedBasis(plane, data) ==
    IF Present(data, ChosenBasis(plane, data)) THEN ChosenBasis(plane, data)
    ELSE IF Present(data, "seats") THEN "seats"
    ELSE "none"

\* C10: a seats model uses seats; a payload model uses max_payload_kg when
\* present and non-zero, otherwise mtow_kg; a chosen basis that is absent or
\* zero gives way to seats when seats is non-zero; with no basis the cost is 0,
\* otherwise basis * factor rounded to 2 decimals (payload model, payload
\* absent, mtow 80000, factor 0.00005 give 4.00).
C10_FuelCostBasis ==
    pc = "returned" =>
        /\ ret = IF UsedBasis(args.plane, args.data) = "none" THEN Num(0, 0)
                 ELSE Round(Times(args.data[UsedBasis(args.plane, args.data)],
                                  FUEL_PROFILES[args.plane.fuel_profile].m,
                                  FUEL_PROFILES[args.plane.fuel_profile].e), 2)
        /\ (/\ args.plane.fuel_profile = "cargo_jumbo"
            /\ "max_payload_kg" \notin DOMAIN args.data
            /\ Get(args.data, "mtow_kg") = Num(80000, 0))
           => ret = Num(4, 0)

\* the payload model of factor 0.00005 on a record without payload and with
\* mtow 80000
C10_Witness ==
    /\ pc = "returned"
    /\ args.plane.fuel_profile = "cargo_jumbo"
    /\ "max_payload_kg" \notin DOMAIN args.data
    /\ Get(args.data, "mtow_kg") = Num(80000, 0)
    /\ ret = Num(4, 0)

(***************************************************************************)
(* Properties of the field collectors (SpecCollect)                        *)
(***************************************************************************)
\* what the matcher of the collector finds for field i of the registry
MatchedFor(i) ==
    IF fn = "collect_table_fields"
    THEN find_row_value(AsTable(args), 1, FIELD_DEFS[i].keywords, FIELD_DEFS[i].skip)
    ELSE find_in_list(AsItems(args), FIELD_DEFS[i].keywords, FIELD_DEFS[i].skip)

\* the value the parser of field i reads from what was matched
ParsedFor(i) == Parse(FIELD_DEFS[i].parser, MatchedFor(i).value)

\* neither None, a numeric zero nor an empty or blank string
Readable(value) ==
    \/ value.k = "num" /\ value.m # 0
    \/ value.k = "str" /\ \E c \in DOMAIN value.s : ~IsSpace(value.s[c])

\* C11: on the table path and on the list path the extras hold exactly the
\* registry fields whose row or item was matched and whose parsed value is
\* neither None, a numeric zero nor an empty or blank string, each with that
\* value: no key of the extras maps to zero, None or an empty string, and a
\* field whose value parses to zero is left out.
C11_ExtrasReadableOnly ==
    (pc = "returned" /\ ~ret.raised) =>
        /\ \A key \in DOMAIN ret.extras : Readable(ret.extras[key])
        /\ DOMAIN ret.extras =
              {FIELD_DEFS[i].key : i \in {j \in DOMAIN FIELD_DEFS :
                                              MatchedFor(j).found /\ Readable(ParsedFor(j))}}
        /\ \A i \in DOMAIN FIELD_DEFS :
              FIELD_DEFS[i].key \in DOMAIN ret.extras =>
                  ret.extras[FIELD_DEFS[i].key] = ParsedFor(i)

\* extras with a stored field, from a source with a matched field whose value
\* parses to zero and is left out
C11_Witness ==
    /\ pc = "returned"
    /\ ~ret.raised
    /\ DOMAIN ret.extras # {}
    /\ \E i \in DOMAIN FIELD_DEFS :
          /\ MatchedFor(i).found
          /\ ParsedFor(i) = Num(0, 0)
          /\ FIELD_DEFS[i].key \notin DOMAIN ret.extras

====
